---- MODULE Spec2Model ----
(***************************************************************************)
(* The VRChat backend service of src/Main.py (the monolithic script that   *)
(* starts at line 208): configuration and knowledge-base loading, the      *)
(* keyword responder get_ai_response, the two OSC handlers, the Discord    *)
(* notification sink and the life cycle of the main thread.                *)
(*                                                                         *)
(* Python strings are TLA+ strings; TLC evaluates Len, \o, SubSeq, Head    *)
(* and Tail on them, so lower(), strip(), startswith(), endswith() and     *)
(* the "in" operator are computed character by character.                  *)
(***************************************************************************)
EXTENDS Integers, Sequences, FiniteSets, TLC

VARIABLES
    main_pc,            \* position of the main thread in the __main__ block
    CONFIG,             \* the global CONFIG (the keys the handlers read)
    vrchat_osc_client,  \* "None" or "client"
    knowledge_base,     \* the global knowledge_base
    osc_server,         \* [serving, socket_open] of osc_server_instance
    handler,            \* the chat handler thread in flight and its locals
    out,                \* what the current (or last) dispatch produced
    call,               \* the last direct call of get_ai_response
    loads               \* the knowledge-base files read so far (last two)

vars == <<main_pc, CONFIG, vrchat_osc_client, knowledge_base, osc_server,
          handler, out, call, loads>>

-----------------------------------------------------------------------------
(* Bounds of the model.                                                    *)

\* Largest number of topics in a generated knowledge base.
MaxTopics == 2

-----------------------------------------------------------------------------
(* Python str operations.                                                  *)

UpperLetters == "ABCDEFGHIJKLMNOPQRSTUVWXYZ"

LowerLetters == "abcdefghijklmnopqrstuvwxyz"

\* str.lower() on one character.
LowerChar(c) ==
    IF \E i \in 1..Len(UpperLetters) : SubSeq(UpperLetters, i, i) = c
    THEN LET i == CHOOSE k \in 1..Len(UpperLetters) : SubSeq(UpperLetters, k, k) = c
         IN  SubSeq(LowerLetters, i, i)
    ELSE c

RECURSIVE Lower(_)
\* str.lower()
Lower(s) == IF s = "" THEN "" ELSE LowerChar(Head(s)) \o Lower(Tail(s))

\* str.isspace() on one character.
IsSpace(c) == c \in {" ", "\t", "\n", "\r", "\f"}

RECURSIVE LStrip(_)
LStrip(s) == IF s # "" /\ IsSpace(Head(s)) THEN LStrip(Tail(s)) ELSE s

RECURSIVE RStrip(_)
RStrip(s) ==
    IF s # "" /\ IsSpace(SubSeq(s, Len(s), Len(s)))
    THEN RStrip(SubSeq(s, 1, Len(s) - 1))
    ELSE s

\* str.strip()
Strip(s) == RStrip(LStrip(s))

\* s.startswith(p)
StartsWith(s, p) == Len(p) <= Len(s) /\ SubSeq(s, 1, Len(p)) = p

\* s.endswith(p)
EndsWith(s, p) == Len(p) <= Len(s) /\ SubSeq(s, Len(s) - Len(p) + 1, Len(s)) = p

\* sub in s
Contains(sub, s) ==
    \E i \in 0..(Len(s) - Len(sub)) : SubSeq(s, i + 1, i + Len(sub)) = sub

RECURSIVE Join(_, _)
\* sep.join(strs)
Join(sep, strs) ==
    IF Len(strs) = 0 THEN ""
    ELSE IF Len(strs) = 1 THEN strs[1]
    ELSE strs[1] \o sep \o Join(sep, Tail(strs))

-----------------------------------------------------------------------------
(* JSON values as json.load returns them.  A field of a topic record is    *)
(* [has, s]: present with the string s, or absent.  An element of a list   *)
(* is [str, s]: the string s, or a value that is not a string.             *)

Absent == [has |-> FALSE, s |-> ""]

Field(s) == [has |-> TRUE, s |-> s]

StrElem(s) == [str |-> TRUE, s |-> s]

\* A value that is not a string (a number), with its str() rendering.
NonStrElem(s) == [str |-> FALSE, s |-> s]

NoAliases == [kind |-> "absent", elems |-> <<>>]

AliasList(elems) == [kind |-> "list", elems |-> elems]

\* "aliases": null (or a number): present, and not iterable.
AliasesNotIterable == [kind |-> "other", elems |-> <<>>]

\* A topic whose value is a JSON object.
Topic(key, aliases, description, details, website, contact) ==
    [key |-> key,
     data |-> [t |-> "dict", aliases |-> aliases, description |-> description,
               details |-> details, website |-> website, contact |-> contact]]

\* A topic whose value is not a JSON object (a string, a number, a list).
TopicNotDict(key) ==
    [key |-> key,
     data |-> [t |-> "other", aliases |-> NoAliases, description |-> Absent,
               details |-> Absent, website |-> Absent, contact |-> Absent]]

\* A dict, in insertion order.
Dict(topics) == [t |-> "dict", topics |-> topics]

\* A top-level JSON value that is not an object (a list, a string, null).
NotDict == [t |-> "other", topics |-> <<>>]

\* knowledge_base = {}
EmptyStore == Dict(<<>>)

\* dict.get(name, default) of a field read with a string default.
Get(field, default) == IF field.has THEN field.s ELSE default

-----------------------------------------------------------------------------
(* get_ai_response.                                                        *)

\* message.lower().strip()
Normalize(message) == Strip(Lower(message))

DefaultResponse(player_name) ==
    "Sorry " \o player_name \o
    ", I didn't quite catch that. You can ask me about the businesses or topics I know."

\* Building the trigger list raises when the topic's value has no get(), when
\* "aliases" is not iterable, or when an alias has no lower().
TriggersRaise(topic) ==
    \/ topic.data.t # "dict"
    \/ topic.data.aliases.kind = "other"
    \/ \E i \in DOMAIN topic.data.aliases.elems : ~topic.data.aliases.elems[i].str

TopicTriggersRaw(topic) ==
    <<topic.key>> \o [i \in DOMAIN topic.data.aliases.elems |-> topic.data.aliases.elems[i].s]

\* The mutant: the triggers are compared as they are spelled.
TopicTriggersNotLowered(topic) == TopicTriggersRaw(topic)

\* [key.lower()] + [alias.lower() for alias in data.get("aliases", [])]
TopicTriggers(topic) ==
    [i \in DOMAIN TopicTriggersRaw(topic) |-> Lower(TopicTriggersRaw(topic)[i])]

\* The condition of line 384 for one trigger.
TriggerMatches(trigger, message_lower) ==
    \/ Contains(" " \o trigger \o " ", " " \o message_lower \o " ")
    \/ StartsWith(message_lower, trigger)
    \/ EndsWith(message_lower, trigger)
    \/ message_lower = trigger

\* any(... for trigger in triggers)
TopicMatches(topic, message_lower) ==
    \E i \in DOMAIN TopicTriggers(topic) :
        TriggerMatches(TopicTriggers(topic)[i], message_lower)

\* The reply composed for a matched topic, lines 386-398.
TopicResponse(topic) ==
    LET description == Get(topic.data.description, "No description available.")
        details == Get(topic.data.details, "")
        website == Get(topic.data.website, "")
        contact == Get(topic.data.contact, "")
    IN  "Regarding " \o topic.key \o ":\n" \o description
        \o (IF details # "" THEN "\nMore Info: " \o details ELSE "")
        \o (IF website # "" THEN "\nWebsite: " \o website ELSE "")
        \o (IF contact # "" THEN "\nContact: " \o contact ELSE "")

NoMatch == [matched |-> FALSE, raised |-> FALSE, response |-> ""]

Raised == [matched |-> FALSE, raised |-> TRUE, response |-> ""]

RECURSIVE ScanLastMatch(_, _, _)
\* The mutant: the loop without its break, so the last matching topic wins.
ScanLastMatch(topics, i, message_lower) ==
    IF i > Len(topics) THEN NoMatch
    ELSE IF TriggersRaise(topics[i]) THEN Raised
    ELSE LET rest == ScanLastMatch(topics, i + 1, message_lower)
         IN  IF rest.raised \/ rest.matched THEN rest
             ELSE IF TopicMatches(topics[i], message_lower)
             THEN [matched |-> TRUE, raised |-> FALSE, response |-> TopicResponse(topics[i])]
             ELSE NoMatch

RECURSIVE ScanFrom(_, _, _)
\* The for loop of lines 380-401 from the i-th item on.
ScanFrom(topics, i, message_lower) ==
    IF i > Len(topics) THEN NoMatch
    ELSE IF TriggersRaise(topics[i]) THEN Raised
    ELSE IF TopicMatches(topics[i], message_lower)
    THEN [matched |-> TRUE, raised |-> FALSE, response |-> TopicResponse(topics[i])]
    ELSE ScanFrom(topics, i + 1, message_lower)

\* The mutant of the loop, from the first item.
ScanTopicsNoBreak(topics, message_lower) == ScanLastMatch(topics, 1, message_lower)

\* The loop over the items of the store.
ScanTopics(topics, message_lower) == ScanFrom(topics, 1, message_lower)

\* Lines 380-401 on the store kb that the global names when the loop starts:
\* kb.items() raises when kb is not a dict.
Scan(kb, message_lower) ==
    IF kb.t # "dict" THEN Raised ELSE ScanTopics(kb.topics, message_lower)

\* ", ".join(knowledge_base.keys())
BusinessNames(kb) == Join(", ", [i \in DOMAIN kb.topics |-> kb.topics[i].key])

\* The mutant: the help keywords are tried before the greeting's.
FallbackHelpFirst(kb, player_name, message_lower, scan) ==
    IF scan.matched THEN [raised |-> FALSE, response |-> Strip(scan.response)]
    ELSE IF Contains("help", message_lower) \/ Contains("what can you do", message_lower)
    THEN IF kb.t # "dict" THEN [raised |-> TRUE, response |-> ""]
         ELSE LET business_names ==
                      IF BusinessNames(kb) = "" THEN "any specific topics yet"
                      ELSE BusinessNames(kb)
              IN  [raised |-> FALSE,
                   response |-> Strip("I can tell you about: " \o business_names \o
                       ". I also notify owners when certain items are interacted with.")]
    ELSE IF Contains("hello", message_lower) \/ Contains("hi", message_lower)
    THEN [raised |-> FALSE,
          response |-> Strip("Hello " \o player_name \o
                             "! How can I help? Ask me about the businesses or items here.")]
    ELSE IF Contains("thank", message_lower)
    THEN [raised |-> FALSE, response |-> Strip("You're welcome, " \o player_name \o "!")]
    ELSE [raised |-> FALSE, response |-> Strip(DefaultResponse(player_name))]

\* Lines 404-415 after a scan that returned: the fallbacks, on the store kb
\* that the global names when line 408 runs, and the final strip().
Fallback(kb, player_name, message_lower, scan) ==
    IF scan.matched THEN [raised |-> FALSE, response |-> Strip(scan.response)]
    ELSE IF Contains("hello", message_lower) \/ Contains("hi", message_lower)
    THEN [raised |-> FALSE,
          response |-> Strip("Hello " \o player_name \o
                             "! How can I help? Ask me about the businesses or items here.")]
    ELSE IF Contains("help", message_lower) \/ Contains("what can you do", message_lower)
    THEN IF kb.t # "dict" THEN [raised |-> TRUE, response |-> ""]
         ELSE LET business_names ==
                      IF BusinessNames(kb) = "" THEN "any specific topics yet"
                      ELSE BusinessNames(kb)
              IN  [raised |-> FALSE,
                   response |-> Strip("I can tell you about: " \o business_names \o
                       ". I also notify owners when certain items are interacted with.")]
    ELSE IF Contains("thank", message_lower)
    THEN [raised |-> FALSE, response |-> Strip("You're welcome, " \o player_name \o "!")]
    ELSE [raised |-> FALSE, response |-> Strip(DefaultResponse(player_name))]

\* get_ai_response when the loop reads the store kb_scan and line 408 reads
\* the store kb_help.
GetAiResponse2(kb_scan, kb_help, player_name, message) ==
    LET scan == Scan(kb_scan, Normalize(message))
    IN  IF scan.raised THEN [raised |-> TRUE, response |-> ""]
        ELSE Fallback(kb_help, player_name, Normalize(message), scan)

\* get_ai_response with the global unchanged during the call.
GetAiResponse(kb, player_name, message) == GetAiResponse2(kb, kb, player_name, message)

-----------------------------------------------------------------------------
(* The outputs of one dispatch, and the chat handler's locals.             *)

\* One OSC message: the address and the two arguments [trigger, text].
OscMessage(address, trigger, text) ==
    [address |-> address, trigger |-> trigger, text |-> text]

\* Nothing produced yet for the inbound message (address, args).
NoOutput(address, args) ==
    [address |-> address, args |-> args, done |-> FALSE, raised |-> FALSE,
     replied |-> FALSE, ai_response |-> "",
     osc_calls |-> <<>>,      \* calls of send_osc_to_vrchat
     wire |-> <<>>,           \* calls of vrchat_osc_client.send_message
     notify_calls |-> <<>>,   \* calls of send_discord_notification
     posts |-> <<>>,          \* calls of requests.post
     failed |-> <<>>,         \* outbound calls that raised (334, 360-361)
     kb_scan |-> EmptyStore,  \* the store the loop of line 380 read
     kb_help |-> EmptyStore]  \* the store the global named at line 404

IdleHandler ==
    [pc |-> "idle", playerName |-> "", message |-> "", scan |-> NoMatch,
     kb_scan |-> EmptyStore]

NoCall == [made |-> FALSE, player_name |-> "", message |-> "",
           raised |-> FALSE, response |-> ""]

-----------------------------------------------------------------------------
(* send_osc_to_vrchat and send_discord_notification.                       *)

\* max_len of handle_chat_message.
max_len == 144

\* The mutant: the ellipsis is appended to max_len characters of the reply.
TruncateNoRoom(ai_response) ==
    IF Len(ai_response) > max_len
    THEN SubSeq(ai_response, 1, max_len) \o "..."
    ELSE ai_response

\* Lines 459-463: ai_response_truncated.
Truncate(ai_response) ==
    IF Len(ai_response) > max_len
    THEN SubSeq(ai_response, 1, max_len - 3) \o "..."
    ELSE ai_response

\* The mutant: a failure of send_message leaves send_osc_to_vrchat as an
\* exception.
SendOscToVrchatUncaught(o, client, address, trigger, text, outcome) ==
    [o EXCEPT !.osc_calls = Append(@, OscMessage(address, trigger, text)),
              !.wire = IF client = "None" THEN @
                       ELSE Append(@, OscMessage(address, trigger, text)),
              !.failed = IF client # "None" /\ outcome = "error"
                         THEN Append(@, "send_message") ELSE @,
              !.raised = client # "None" /\ outcome = "error"]

\* send_osc_to_vrchat(address, [trigger, text]) on the outputs o, with the
\* outcome of send_message ("ok", "error") when it is called: nothing is
\* handed to the client when it is None; a failure of send_message is
\* caught and printed.
SendOscToVrchat(o, client, address, trigger, text, outcome) ==
    [o EXCEPT !.osc_calls = Append(@, OscMessage(address, trigger, text)),
              !.wire = IF client = "None" THEN @
                       ELSE Append(@, OscMessage(address, trigger, text)),
              !.failed = IF client # "None" /\ outcome = "error"
                         THEN Append(@, "send_message") ELSE @]

\* " ".join(owner_ids) raises TypeError on an item that is not a string.
OwnerPingsRaise(owner_ids) == \E i \in DOMAIN owner_ids : ~owner_ids[i].str

\* owner_pings of line 350.
OwnerPings(owner_ids) == Join(" ", [i \in DOMAIN owner_ids |-> owner_ids[i].s])

\* payload["content"] of line 353.
PayloadContent(config, message) ==
    Strip(OwnerPings(config.owner_discord_ids) \o "\n" \o message)

\* send_discord_notification(message) on the outputs o, with the outcome of
\* the POST ("ok", "http_error", "transport_error") when one is issued.
SendDiscordNotification(o, config, message, outcome) ==
    LET called == [o EXCEPT !.notify_calls = Append(@, message)]
    IN  IF config.discord_webhook_url = "" THEN called
        ELSE IF OwnerPingsRaise(config.owner_discord_ids)
        THEN [called EXCEPT !.raised = TRUE]
        ELSE [called EXCEPT !.posts =
                 Append(@, [url |-> config.discord_webhook_url,
                            content |-> PayloadContent(config, message),
                            timeout |-> 10, outcome |-> outcome]),
                            !.failed = IF outcome = "ok" THEN @
                                       ELSE Append(@, "post")]

\* The backquote of the alert's Markdown; a TLA+ string cannot hold that
\* character, so the model writes an apostrophe in its place.
Backquote == "'"

\* The mutant: the item's id is left out of the alert.
NotificationMessageNoItemId(timestamp, itemId, itemName, playerName, playerId) ==
    ":bell: **Item Interaction Alert** (" \o timestamp \o " UTC)\n"
    \o "> **Player:** " \o Backquote \o playerName \o Backquote
    \o " (ID: " \o Backquote \o playerId \o Backquote \o ")\n"
    \o "> **Item:** " \o Backquote \o itemName \o Backquote

\* notification_message of lines 425-429.
NotificationMessage(timestamp, itemId, itemName, playerName, playerId) ==
    ":bell: **Item Interaction Alert** (" \o timestamp \o " UTC)\n"
    \o "> **Player:** " \o Backquote \o playerName \o Backquote
    \o " (ID: " \o Backquote \o playerId \o Backquote \o ")\n"
    \o "> **Item:** " \o Backquote \o itemName \o Backquote
    \o " (ID: " \o Backquote \o itemId \o Backquote \o ")"

-----------------------------------------------------------------------------
(* The environment: files on disk, inbound messages.                       *)

RECURSIVE Repeat(_, _)
Repeat(s, n) == IF n = 0 THEN "" ELSE s \o Repeat(s, n - 1)

\* The contents config.json can give the keys the handlers read: no webhook
\* (also the defaults, used when the file is missing or unreadable), a
\* webhook without and with owner ids, and owner ids written as numbers.
Configs ==
    {[discord_webhook_url |-> "", owner_discord_ids |-> <<>>],
     [discord_webhook_url |-> "https://discord.test/hook", owner_discord_ids |-> <<>>],
     [discord_webhook_url |-> "https://discord.test/hook",
      owner_discord_ids |-> <<StrElem("<@1>"), StrElem("<@2>")>>],
     [discord_webhook_url |-> "https://discord.test/hook",
      owner_discord_ids |-> <<NonStrElem("12345")>>]}

\* {"Tea Shop": {...}, "Help Desk": {...}}: the first reply has 145
\* characters, the second has every optional field.
KbShop ==
    Dict(<<Topic("Tea Shop", AliasList(<<StrElem("Tea")>>),
                 Field(Repeat("x", 125)), Absent, Absent, Absent),
           Topic("Help Desk", AliasList(<<StrElem("help")>>),
                 Field("Ask here."), Field("Open daily"), Field("desk.test"),
                 Field("Sam"))>>)

\* {"tea": {...}}: the reply has exactly 144 characters.
KbTea ==
    Dict(<<Topic("tea", NoAliases, Field(Repeat("y", 129)), Field(""), Absent, Absent)>>)

\* {"Cafe": "closed"}: a topic that is not an object.
KbStringTopic == Dict(<<TopicNotDict("Cafe")>>)

\* What open() and json.load() can meet at the knowledge-base path.
Files ==
    {[kind |-> "missing", value |-> EmptyStore],
     [kind |-> "malformed", value |-> EmptyStore],
     [kind |-> "json", value |-> NotDict],
     [kind |-> "json", value |-> KbStringTopic],
     [kind |-> "json", value |-> KbShop],
     [kind |-> "json", value |-> KbTea]}

Players == {"Sam"}

\* The third argument of /vrchat/chat.
ChatMessages ==
    {NonStrElem("5"), StrElem("   "), StrElem("tea"), StrElem(" Tea Shop "),
     StrElem("help"), StrElem("what")}

\* The arguments of /vrchat/interaction: itemId, itemName, playerName, playerId.
Interactions == {<<"42", "Vending Machine", "Sam", "99">>, <<"7", "Door", "Alex", "usr_1">>}

\* datetime.now().strftime("%Y-%m-%d %H:%M:%S")
Timestamps == {"2025-01-31 23:59:59"}

PostOutcomes == {"ok", "http_error", "transport_error"}

\* What vrchat_osc_client.send_message can do: return, or raise.
SendOutcomes == {"ok", "error"}

\* Addresses with no handler mapped: another name, a mapped name in another
\* case, and a mapped name with a further part.
OtherAddresses == {"/vrchat/other", "/vrchat/Chat", "/vrchat/chat/extra"}

-----------------------------------------------------------------------------
(* The main thread, lines 494-573.                                         *)

Init ==
    /\ main_pc = "load_config"
    /\ CONFIG = [discord_webhook_url |-> "", owner_discord_ids |-> <<>>]
    /\ vrchat_osc_client = "None"
    /\ knowledge_base = EmptyStore
    /\ osc_server = [started |-> FALSE, serving |-> FALSE, socket_open |-> FALSE]
    /\ handler = IdleHandler
    /\ out = NoOutput("", <<>>)
    /\ call = NoCall
    /\ loads = <<>>

\* load_config(): CONFIG is the defaults updated with the file's keys.
LoadConfig ==
    /\ main_pc = "load_config"
    /\ \E c \in Configs : CONFIG' = c
    /\ main_pc' = "initialize_osc_client"
    /\ UNCHANGED <<vrchat_osc_client, knowledge_base, osc_server, handler, out, call, loads>>

\* initialize_osc_client(): the client, or None when its construction raises.
InitializeOscClient ==
    /\ main_pc = "initialize_osc_client"
    /\ \E c \in {"client", "None"} : vrchat_osc_client' = c
    /\ main_pc' = "load_knowledge_base"
    /\ UNCHANGED <<CONFIG, knowledge_base, osc_server, handler, out, call, loads>>

\* The mutant: the file's topics are added to the store (dict.update).
LoadedStoreMerged(kb, file) ==
    IF file.kind = "json"
    THEN IF kb.t = "dict" /\ file.value.t = "dict"
         THEN Dict(SelectSeq(kb.topics,
                       LAMBDA t : \A i \in DOMAIN file.value.topics :
                                      file.value.topics[i].key # t.key)
                   \o file.value.topics)
         ELSE file.value
    ELSE kb

\* The value load_knowledge_base binds to the global: what json.load
\* returned, or {} when the file is missing or does not decode.
LoadedStore(kb, file) == IF file.kind = "json" THEN file.value ELSE EmptyStore

\* The files read, the last two kept.
Remember(file) == IF Len(loads) < 2 THEN Append(loads, file) ELSE <<loads[2], file>>

\* load_knowledge_base() at start-up, line 506.
LoadKnowledgeBase ==
    /\ main_pc = "load_knowledge_base"
    /\ \E file \in Files :
          /\ knowledge_base' = LoadedStore(knowledge_base, file)
          /\ loads' = Remember(file)
    /\ main_pc' = "create_server"
    /\ UNCHANGED <<CONFIG, vrchat_osc_client, osc_server, handler, out, call>>

\* Lines 520-532: the server binds its socket, or the process exits with 1.
CreateServer ==
    /\ main_pc = "create_server"
    /\ \/ /\ osc_server' = [osc_server EXCEPT !.socket_open = TRUE]
          /\ main_pc' = "start_threads"
       \/ /\ main_pc' = "exited"
          /\ UNCHANGED osc_server
    /\ UNCHANGED <<CONFIG, vrchat_osc_client, knowledge_base, handler, out, call, loads>>

\* Lines 535-559: serve_forever starts in its thread; the main thread
\* enters its wait loop.
StartThreads ==
    /\ main_pc = "start_threads"
    /\ osc_server' = [osc_server EXCEPT !.started = TRUE, !.serving = TRUE]
    /\ main_pc' = "running"
    /\ UNCHANGED <<CONFIG, vrchat_osc_client, knowledge_base, handler, out, call, loads>>

\* Lines 563-567 and 571-573: KeyboardInterrupt in the wait loop; shutdown()
\* and server_close(), which waits for the handler threads, then
\* sys.exit(0).
KeyboardInterrupt ==
    /\ main_pc = "running"
    /\ handler.pc = "idle"
    /\ osc_server' = [osc_server EXCEPT !.serving = FALSE, !.socket_open = FALSE]
    /\ main_pc' = "exited"
    /\ UNCHANGED <<CONFIG, vrchat_osc_client, knowledge_base, handler, out, call, loads>>

\* Lines 569-573: another exception in the wait loop is printed, then
\* sys.exit(0); the process ends once the handler threads have ended, the
\* server neither shut down nor closed.
MainLoopError ==
    /\ main_pc = "running"
    /\ handler.pc = "idle"
    /\ main_pc' = "exited"
    /\ UNCHANGED <<CONFIG, vrchat_osc_client, knowledge_base, osc_server, handler, out, call, loads>>

\* load_knowledge_base() called again while the listener serves: the reload
\* that the script leaves to a caller outside it (line 491).
Reload ==
    /\ main_pc = "running"
    /\ \E file \in Files :
          /\ knowledge_base' = LoadedStore(knowledge_base, file)
          /\ loads' = Remember(file)
    /\ UNCHANGED <<main_pc, CONFIG, vrchat_osc_client, osc_server, handler, out, call>>

-----------------------------------------------------------------------------
(* The dispatcher and the handlers.  ThreadingOSCUDPServer runs a handler  *)
(* in a thread of its own; the chat handler reads the global               *)
(* knowledge_base at line 380 and again at line 408, so it takes two       *)
(* steps.                                                                  *)

Serving == main_pc = "running" /\ osc_server.serving

\* handle_chat_message up to the end of the loop of get_ai_response.
ChatBegin(playerName, playerId, message) ==
    /\ Serving
    /\ handler.pc = "idle"
    /\ LET fresh == NoOutput("/vrchat/chat",
                             <<StrElem(playerName), StrElem(playerId), message>>)
           scan == Scan(knowledge_base, Normalize(Strip(message.s)))
       IN  IF ~message.str \/ Strip(message.s) = ""
           THEN /\ out' = [fresh EXCEPT !.done = TRUE]
                /\ handler' = IdleHandler
           ELSE IF scan.raised
           THEN /\ out' = [fresh EXCEPT !.done = TRUE, !.raised = TRUE,
                                        !.kb_scan = knowledge_base,
                                        !.kb_help = knowledge_base]
                /\ handler' = IdleHandler
           ELSE /\ out' = fresh
                /\ handler' = [pc |-> "scanned", playerName |-> playerName,
                               message |-> Strip(message.s), scan |-> scan,
                               kb_scan |-> knowledge_base]
    /\ UNCHANGED <<main_pc, CONFIG, vrchat_osc_client, knowledge_base, osc_server, call, loads>>

\* The rest of get_ai_response and of handle_chat_message: the fallbacks,
\* the truncation and the send.
ChatFinish ==
    /\ handler.pc = "scanned"
    /\ LET r == Fallback(knowledge_base, handler.playerName,
                         Normalize(handler.message), handler.scan)
           seen == [out EXCEPT !.done = TRUE, !.kb_scan = handler.kb_scan,
                               !.kb_help = knowledge_base]
       IN  IF r.raised
           THEN out' = [seen EXCEPT !.raised = TRUE]
           ELSE \E outcome \in SendOutcomes :
                    out' = SendOscToVrchat(
                               [seen EXCEPT !.replied = TRUE, !.ai_response = r.response],
                               vrchat_osc_client, "/avatar/parameters/Chatbox", TRUE,
                               Truncate(r.response), outcome)
    /\ handler' = IdleHandler
    /\ UNCHANGED <<main_pc, CONFIG, vrchat_osc_client, knowledge_base, osc_server, call, loads>>

\* handle_interaction.
HandleInteraction(itemId, itemName, playerName, playerId) ==
    /\ Serving
    /\ handler.pc = "idle"
    /\ \E timestamp \in Timestamps, outcome \in PostOutcomes :
          out' = [SendDiscordNotification(
                      NoOutput("/vrchat/interaction",
                               <<StrElem(itemId), StrElem(itemName),
                                 StrElem(playerName), StrElem(playerId)>>),
                      CONFIG,
                      NotificationMessage(timestamp, itemId, itemName, playerName, playerId),
                      outcome)
                  EXCEPT !.done = TRUE]
    /\ UNCHANGED <<main_pc, CONFIG, vrchat_osc_client, knowledge_base, osc_server,
                   handler, call, loads>>

\* The mutant: a default handler is set, and it notifies the owners.
UnroutedNotified(address) ==
    /\ Serving
    /\ handler.pc = "idle"
    /\ out' = [SendDiscordNotification(NoOutput(address, <<>>), CONFIG,
                                       "Received unhandled OSC: " \o address, "ok")
               EXCEPT !.done = TRUE]
    /\ UNCHANGED <<main_pc, CONFIG, vrchat_osc_client, knowledge_base, osc_server,
                   handler, call, loads>>

\* A message on an address the dispatcher has no handler for: lines 510-511
\* map two addresses, and line 514 leaves the default handler unset.
Unrouted(address) ==
    /\ Serving
    /\ handler.pc = "idle"
    /\ out' = [NoOutput(address, <<>>) EXCEPT !.done = TRUE]
    /\ UNCHANGED <<main_pc, CONFIG, vrchat_osc_client, knowledge_base, osc_server,
                   handler, call, loads>>

Next ==
    \/ LoadConfig
    \/ InitializeOscClient
    \/ LoadKnowledgeBase
    \/ CreateServer
    \/ StartThreads
    \/ KeyboardInterrupt
    \/ MainLoopError
    \/ Reload
    \/ \E p \in Players, m \in ChatMessages : ChatBegin(p, "usr_1", m)
    \/ ChatFinish
    \/ \E a \in Interactions : HandleInteraction(a[1], a[2], a[3], a[4])
    \/ \E address \in OtherAddresses : Unrouted(address)

Spec == Init /\ [][Next]_vars

-----------------------------------------------------------------------------
(* get_ai_response called directly, on generated knowledge bases.          *)

\* The keys and aliases of the generated topics: a word, the same word
\* capitalised and with a leading blank, a phrase that starts with the word
\* and a word that ends the phrase.
TriggerPool == {"tea", "Tea", "tea shop", "shop", " tea"}

\* The aliases of the generated topics: a capitalised word, a word that
\* ends a key, and the empty string.
AliasPool == {"Tea", "shop", ""}

\* The topics generated: a key, and no alias or one.
GenTopics ==
    {Topic(key, aliases, Absent, Absent, Absent, Absent) :
        key \in TriggerPool,
        aliases \in {NoAliases} \cup {AliasList(<<StrElem(a)>>) : a \in AliasPool}}

\* The dicts of at most MaxTopics generated topics: the keys of a dict differ.
GenStores ==
    {Dict(topics) : topics \in
        {ts \in UNION {[1..n -> GenTopics] : n \in 0..MaxTopics} :
            \A i, j \in DOMAIN ts : i # j => ts[i].key # ts[j].key}}

\* Texts for the fallbacks: blank ones, one keyword, two keywords, a
\* keyword inside a word, a keyword and a trigger, none.
FallbackTexts ==
    {"", "   ", "hello there", "which help", "help", "what can you do",
     "thanks for help", "Thanks", "hello tea", "what"}

\* The texts get_ai_response is called with.
MatchTexts == TriggerPool \cup FallbackTexts

InitMatch ==
    /\ main_pc = "running"
    /\ CONFIG = [discord_webhook_url |-> "", owner_discord_ids |-> <<>>]
    /\ vrchat_osc_client = "client"
    /\ knowledge_base \in GenStores
    /\ osc_server = [started |-> TRUE, serving |-> TRUE, socket_open |-> TRUE]
    /\ handler = IdleHandler
    /\ out = NoOutput("", <<>>)
    /\ call = NoCall
    /\ loads = <<[kind |-> "json", value |-> knowledge_base]>>

\* get_ai_response(player_name, message), the store unchanged meanwhile;
\* the function keeps nothing between calls, so one call is made.
CallGetAiResponse(player_name, message) ==
    /\ main_pc = "running"
    /\ ~call.made
    /\ LET r == GetAiResponse(knowledge_base, player_name, message)
       IN  call' = [made |-> TRUE, player_name |-> player_name, message |-> message,
                    raised |-> r.raised, response |-> r.response]
    /\ UNCHANGED <<main_pc, CONFIG, vrchat_osc_client, knowledge_base, osc_server,
                   handler, out, loads>>

NextMatch == \E p \in Players, m \in MatchTexts : CallGetAiResponse(p, m)

SpecMatch == InitMatch /\ [][NextMatch]_vars

-----------------------------------------------------------------------------
(* Properties of get_ai_response (checked under SpecMatch).                *)

Min(S) == CHOOSE x \in S : \A y \in S : x <= y

\* The triggers of a topic as the store spells them.
RawTriggerSet(topic) ==
    {TopicTriggersRaw(topic)[i] : i \in DOMAIN TopicTriggersRaw(topic)}

\* Some trigger of the topic, lower-cased, equals the text, starts it, ends
\* it, or stands in it between two blanks.
TopicHit(topic, text) ==
    \E t \in RawTriggerSet(topic) : TriggerMatches(Lower(t), text)

\* The response is the reply composed for the topic.
IsReplyOf(topic, response) == StartsWith(response, "Regarding " \o topic.key \o ":")

\* The topics of the store that the text hits, by index.
Hits(text) ==
    {j \in DOMAIN knowledge_base.topics : TopicHit(knowledge_base.topics[j], text)}

\* C1 as stated: called with a trigger T of topic K, get_ai_response returns
\* K's reply, unless T is also a trigger (compared without case) of an
\* earlier topic, and then it returns the reply of the earliest such topic.
C1_TriggerGetsOwnReply ==
    call.made =>
        \A i \in DOMAIN knowledge_base.topics :
            call.message \in RawTriggerSet(knowledge_base.topics[i]) =>
                LET earlier == {j \in 1..(i - 1) :
                                   \E t \in RawTriggerSet(knowledge_base.topics[j]) :
                                       Lower(t) = Lower(call.message)}
                    k == IF earlier = {} THEN i ELSE Min(earlier)
                IN  ~call.raised /\ IsReplyOf(knowledge_base.topics[k], call.response)

\* C1 amended: called with a trigger T of topic K, get_ai_response returns
\* the reply of the first topic in store order that the normalised T hits
\* (a trigger equal to it, starting it, ending it, or in it between blanks);
\* when T has no surrounding whitespace K is one of the topics hit, so the
\* reply is K's unless an earlier topic is hit.
C1_FirstHitReplies ==
    call.made =>
        \A i \in DOMAIN knowledge_base.topics :
            call.message \in RawTriggerSet(knowledge_base.topics[i]) =>
                LET hits == Hits(Normalize(call.message))
                IN  /\ ~call.raised
                    /\ call.message = Strip(call.message) => i \in hits
                    /\ hits # {} =>
                          IsReplyOf(knowledge_base.topics[Min(hits)], call.response)
                    /\ hits = {} => ~StartsWith(call.response, "Regarding ")

\* The case of C1: the trigger "tea shop" of the second topic, and the
\* reply of the first topic, whose key "tea" starts it.
C1_Witness ==
    /\ call.made
    /\ call.message = "tea shop"
    /\ Len(knowledge_base.topics) = 2
    /\ knowledge_base.topics[1].key = "tea"
    /\ knowledge_base.topics[1].data.aliases = NoAliases
    /\ knowledge_base.topics[2].key = "tea shop"
    /\ IsReplyOf(knowledge_base.topics[1], call.response)

\* C2 as stated: called with a topic key K, get_ai_response returns a reply
\* that contains "Regarding K:".
C2_KeyReplyNamesKey ==
    call.made =>
        \A i \in DOMAIN knowledge_base.topics :
            call.message = knowledge_base.topics[i].key =>
                /\ ~call.raised
                /\ Contains("Regarding " \o knowledge_base.topics[i].key \o ":",
                            call.response)

\* C2 amended: called with a topic key K that has no surrounding whitespace,
\* get_ai_response returns a reply that contains "Regarding K:" unless the
\* normalised K hits an earlier topic, and then it returns the reply of the
\* first topic hit.
C2_KeyReplyUnlessShadowed ==
    call.made =>
        \A i \in DOMAIN knowledge_base.topics :
            (/\ call.message = knowledge_base.topics[i].key
             /\ call.message = Strip(call.message)) =>
                LET hits == Hits(Normalize(call.message))
                IN  /\ ~call.raised
                    /\ i \in hits
                    /\ Min(hits) = i =>
                          Contains("Regarding " \o knowledge_base.topics[i].key \o ":",
                                   call.response)
                    /\ Min(hits) < i =>
                          IsReplyOf(knowledge_base.topics[Min(hits)], call.response)

\* The case of C2: the key "Tea" of the second topic, not hit by the first.
C2_Witness ==
    /\ call.made
    /\ call.message = "Tea"
    /\ Len(knowledge_base.topics) = 2
    /\ knowledge_base.topics[2].key = "Tea"
    /\ Hits("tea") = {2}
    /\ Contains("Regarding Tea:", call.response)

-----------------------------------------------------------------------------
(* Properties of the handlers and of the main thread (checked under Spec). *)

Chatbox == "/avatar/parameters/Chatbox"

\* The dispatch that has just ended handled a /vrchat/chat message.
ChatDone == out.address = "/vrchat/chat" /\ out.done

\* The dispatch that has just ended handled a /vrchat/interaction message.
InteractionDone == out.address = "/vrchat/interaction" /\ out.done

\* The message argument of the chat is not a string, or is blank.
InvalidChat == ~out.args[3].str \/ Strip(out.args[3].s) = ""

\* C3: a text sent to the Chatbox address has at most 144 characters; a
\* reply of more than 144 characters is sent as its first 141 characters
\* followed by "...", 144 in all, and a shorter reply is sent unchanged.
C3_ChatboxTextTruncated ==
    \A log \in {out.osc_calls, out.wire} :
        \A i \in DOMAIN log :
            log[i].address = Chatbox =>
                /\ Len(log[i].text) <= 144
                /\ Len(out.ai_response) > 144 =>
                      /\ Len(log[i].text) = 144
                      /\ log[i].text = SubSeq(out.ai_response, 1, 141) \o "..."
                /\ Len(out.ai_response) <= 144 => log[i].text = out.ai_response

\* The case of C3: a reply of 145 characters, sent as 144.
C3_Witness ==
    /\ ChatDone
    /\ Len(out.ai_response) = 145
    /\ Len(out.wire) = 1
    /\ Len(out.wire[1].text) = 144
    /\ EndsWith(out.wire[1].text, "x...")

\* C4 as stated: a chat whose message is not a string or is blank sends
\* nothing; any other chat sends exactly one message, to the Chatbox
\* address, with the arguments true and the (truncated) reply, and no
\* notification.
C4_ChatSendsOneMessage ==
    ChatDone =>
        /\ out.notify_calls = <<>>
        /\ out.posts = <<>>
        /\ InvalidChat => out.osc_calls = <<>>
        /\ ~InvalidChat =>
              /\ out.replied
              /\ Len(out.osc_calls) = 1
              /\ out.osc_calls[1].address = Chatbox
              /\ out.osc_calls[1].trigger = TRUE
              /\ out.osc_calls[1].text \in
                     {out.ai_response, SubSeq(out.ai_response, 1, 141) \o "..."}

\* C5: an interaction calls send_discord_notification exactly once, with a
\* text that contains the four arguments, and sends no OSC message.
C5_InteractionNotifiesOnce ==
    InteractionDone =>
        /\ Len(out.notify_calls) = 1
        /\ \A k \in 1..4 : Contains(out.args[k].s, out.notify_calls[1])
        /\ out.osc_calls = <<>>
        /\ out.wire = <<>>

\* The case of C5: the interaction of the specification's scenario.
C5_Witness ==
    /\ InteractionDone
    /\ out.args = <<StrElem("42"), StrElem("Vending Machine"), StrElem("Sam"), StrElem("99")>>
    /\ Len(out.notify_calls) = 1
    /\ Contains("Vending Machine", out.notify_calls[1])

\* C6 as stated: a call of send_discord_notification issues no POST when no
\* webhook URL is configured and exactly one when one is configured.
C6_OnePostWhenConfigured ==
    InteractionDone =>
        /\ Len(out.notify_calls) = 1
        /\ CONFIG.discord_webhook_url = "" => Len(out.posts) = 0
        /\ CONFIG.discord_webhook_url # "" => Len(out.posts) = 1

\* What the chat handler's call of get_ai_response came to.
ChatResult == [raised |-> out.raised, response |-> out.ai_response]

\* The store is a dict of topics whose triggers can be listed.
WellFormed(kb) == kb.t = "dict" /\ \A i \in DOMAIN kb.topics : ~TriggersRaise(kb.topics[i])

\* C7 as stated: the reply of a chat is the one get_ai_response computes
\* from the store its loop read, or the one it computes from the store the
\* global named afterwards, whole (stated for stores of well-formed topics).
C7_ReplyFromOneStore ==
    (ChatDone /\ ~InvalidChat /\ WellFormed(out.kb_scan) /\ WellFormed(out.kb_help)) =>
        ChatResult \in
            {GetAiResponse(kb, out.args[1].s, Strip(out.args[3].s)) :
                kb \in {out.kb_scan, out.kb_help}}

\* C8 as stated: when the process has left its wait loop and exited, the
\* listener it had started is stopped and its socket is closed.
C8_ListenerStoppedAtExit ==
    (main_pc = "exited" /\ osc_server.started) =>
        ~osc_server.serving /\ ~osc_server.socket_open

\* C9 as stated: on a store that load_knowledge_base produced and that did
\* not change during the call, get_ai_response returns, and returns a
\* string that is not empty.
C9_ResponseNeverRaises ==
    (ChatDone /\ ~InvalidChat /\ out.kb_scan = out.kb_help) =>
        ~out.raised /\ out.replied /\ out.ai_response # ""

\* The keys of a JSON value that is a dict.
Keys(value) == {value.topics[i].key : i \in DOMAIN value.topics}

\* The triggers of the topics of a file that json.load could read.
FileTriggers(file) ==
    IF file.kind = "json"
    THEN UNION {RawTriggerSet(file.value.topics[i]) : i \in DOMAIN file.value.topics}
    ELSE {}

\* C10 as stated: after two loads the store is what the second file holds,
\* and is empty when that file is missing or malformed; no topic that only
\* the first file had remains, and a trigger that only the first file had
\* (compared without case) matches no topic of the store.
C10_FirstLoadTriggersGone ==
    Len(loads) = 2 =>
        LET first == loads[1]
            second == loads[2]
        IN  /\ second.kind = "json" => knowledge_base = second.value
            /\ second.kind # "json" => knowledge_base = Dict(<<>>)
            /\ \A key \in Keys(first.value) :
                  (second.kind # "json" \/ key \notin Keys(second.value)) =>
                      key \notin Keys(knowledge_base)
            /\ \A T \in FileTriggers(first) :
                  (\A t \in FileTriggers(second) : Lower(t) # Lower(T)) =>
                      ~Scan(knowledge_base, Normalize(T)).matched

\* C10 amended: after two loads the store is what the second file holds,
\* and is empty when that file is missing or malformed; no topic that only
\* the first file had remains, and a trigger of the first file that hits no
\* topic of the second file matches no topic of the store.
C10_SecondLoadReplaces ==
    Len(loads) = 2 =>
        LET first == loads[1]
            second == loads[2]
        IN  /\ second.kind = "json" => knowledge_base = second.value
            /\ second.kind # "json" => knowledge_base = Dict(<<>>)
            /\ \A key \in Keys(first.value) :
                  (second.kind # "json" \/ key \notin Keys(second.value)) =>
                      key \notin Keys(knowledge_base)
            /\ \A T \in FileTriggers(first) :
                  (\A i \in DOMAIN second.value.topics :
                       ~TopicHit(second.value.topics[i], Normalize(T))) =>
                      ~Scan(knowledge_base, Normalize(T)).matched

\* The case of C10: the shop's file, then the tea file; "help", a trigger
\* of the first, matches no longer.
C10_Witness ==
    /\ Len(loads) = 2
    /\ loads[1] = [kind |-> "json", value |-> KbShop]
    /\ loads[2] = [kind |-> "json", value |-> KbTea]
    /\ knowledge_base = KbTea
    /\ "help" \in FileTriggers(loads[1])
    /\ ~Scan(knowledge_base, "help").matched

-----------------------------------------------------------------------------
(* Outbound failures.                                                      *)

\* The outbound call of the dispatch in out failed or could not be made.
OutboundFailed ==
    \/ out.failed # <<>>
    \/ out.osc_calls # <<>> /\ out.wire = <<>>

\* C11: a step of the chat or interaction handler leaves the store and the
\* configuration unchanged, and a handler whose outbound call failed (the
\* send raised, the client is None, the POST failed) returns normally.
C11_OutboundFailureContained ==
    [][out' # out =>
          /\ UNCHANGED <<knowledge_base, CONFIG>>
          /\ (out'.done /\ OutboundFailed') => ~out'.raised]_vars

\* The case of C11: a chat whose reply send_message refused, and the
\* handler returned.
C11_Witness ==
    /\ ChatDone
    /\ Len(out.wire) = 1
    /\ out.failed = <<"send_message">>
    /\ ~out.raised

-----------------------------------------------------------------------------
(* Blank texts and the fallbacks (checked under SpecMatch).                *)

\* C12: called with an empty or whitespace-only text, get_ai_response
\* matches no topic of the store and returns the generic reply naming the
\* speaker.
C12_BlankTextGetsGenericReply ==
    (call.made /\ Strip(call.message) = "") =>
        /\ ~call.raised
        /\ ~Scan(knowledge_base, Normalize(call.message)).matched
        /\ call.response = DefaultResponse(call.player_name)

\* The addresses that lines 510-511 map to a handler.
Mapped == {"/vrchat/interaction", "/vrchat/chat"}

Greeting(speaker) ==
    "Hello " \o speaker \o "! How can I help? Ask me about the businesses or items here."

TopicList(names) ==
    "I can tell you about: " \o names \o
    ". I also notify owners when certain items are interacted with."

Thanks(speaker) == "You're welcome, " \o speaker \o "!"

\* The keys of the store in its order, joined by ", ".
KeysJoined ==
    Join(", ", [i \in DOMAIN knowledge_base.topics |-> knowledge_base.topics[i].key])

\* The keyword occurs somewhere in the normalised text of the call.
Has(keyword) == Contains(keyword, Normalize(call.message))

\* C14: when the text hits no topic, the reply is the greeting if the
\* normalised text contains "hello" or "hi"; else the list of the keys (the
\* placeholder when the store is empty) if it contains "help" or "what can
\* you do"; else the thanks if it contains "thank"; else the generic reply.
\* "hello there" gets the greeting whenever it hits no topic.
C14_FallbackPrecedence ==
    (call.made /\ Hits(Normalize(call.message)) = {}) =>
        /\ ~call.raised
        /\ (Has("hello") \/ Has("hi")) => call.response = Greeting(call.player_name)
        /\ (~Has("hello") /\ ~Has("hi") /\ (Has("help") \/ Has("what can you do"))) =>
               call.response =
                   IF knowledge_base.topics = <<>> THEN TopicList("any specific topics yet")
                   ELSE TopicList(KeysJoined)
        /\ (~Has("hello") /\ ~Has("hi") /\ ~Has("help") /\ ~Has("what can you do")
               /\ Has("thank")) =>
               call.response = Thanks(call.player_name)
        /\ (~Has("hello") /\ ~Has("hi") /\ ~Has("help") /\ ~Has("what can you do")
               /\ ~Has("thank")) =>
               call.response = DefaultResponse(call.player_name)
        /\ call.message = "hello there" => call.response = Greeting(call.player_name)

\* The case of C14: "which help" holds "hi" and "help", hits neither topic
\* of the store, and gets the greeting.
C14_Witness ==
    /\ call.made
    /\ call.message = "which help"
    /\ Len(knowledge_base.topics) = 2
    /\ Hits("which help") = {}
    /\ call.response = Greeting("Sam")

====
